---- MODULE Spec2Model ----
(***************************************************************************)
(* Collision engine of the game: oriented bounding boxes                   *)
(* (src/src/physics/obb.rs), the pairing iterators                         *)
(* (src/src/util/cartesian.rs) and collision detection                     *)
(* (src/src/physics/collision.rs).                                         *)
(*                                                                         *)
(* Numbers.  The code computes in f32.  The model computes exactly, on the *)
(* values a + b*eps, a and b integers, written [h |-> a, l |-> b], where   *)
(* eps = 2^-24 is both a length and an angle (in radians) far below every  *)
(* other quantity: products drop the eps^2 term, as the f32 rounding of a  *)
(* value of magnitude 1 does, and comparisons are lexicographic.           *)
(* Orientations are the angles q*(pi/2) + t*theta + e*eps, theta =         *)
(* atan(4/3), whose sine and cosine are rational with denominator Den:     *)
(* every length that went through a rotation is kept multiplied by Den.    *)
(* Sums keep their eps part exactly, where f32 rounds it to the spacing of *)
(* the sum's magnitude, and the quarter turn and theta are exact, where    *)
(* their f32 values are off by less than eps.                              *)
(***************************************************************************)
EXTENDS Integers, Sequences, FiniteSets, TLC

\* ------------------------------------------------------------------ bounds
\* positions of the second box: x in 1-MaxPos .. MaxPos, y in 0 .. MaxPos-1
MaxPos == 2
\* sizes range over 0 .. MaxSize
MaxSize == 2

\* --------------------------------------------------------------- numbers
\* common denominator of the sines and cosines of the modelled angles
Den == 5
\* pi/2, theta = atan(4/3) and eps = 2^-24, in units of 1e-8 radians
HalfPiE8 == 157079633
ThetaE8 == 92729522
EpsE8 == 6

D(a, b) == [h |-> a, l |-> b]
Zero == D(0, 0)
DAdd(a, b) == D(a.h + b.h, a.l + b.l)
DSub(a, b) == D(a.h - b.h, a.l - b.l)
DNeg(a) == D(-a.h, -a.l)
\* product, the eps^2 term dropped
DMul(a, b) == D(a.h * b.h, a.h * b.l + a.l * b.h)
DScale(k, a) == D(k * a.h, k * a.l)
DLe(a, b) == a.h < b.h \/ (a.h = b.h /\ a.l <= b.l)
DLt(a, b) == a.h < b.h \/ (a.h = b.h /\ a.l < b.l)
\* f32::max, f32::min
DMax(a, b) == IF DLe(a, b) THEN b ELSE a
DMin(a, b) == IF DLe(a, b) THEN a ELSE b

Vec(x, y) == [x |-> x, y |-> y]
VAdd(u, v) == Vec(DAdd(u.x, v.x), DAdd(u.y, v.y))
VSub(u, v) == Vec(DSub(u.x, v.x), DSub(u.y, v.y))
VScale(k, v) == Vec(DScale(k, v.x), DScale(k, v.y))

Abs(n) == IF n < 0 THEN -n ELSE n

\* ---------------------------------------------------------- orientations
Ori(q, t, e) == [q |-> q, t |-> t, e |-> e]
\* self.ori - basis.ori
OriSub(a, b) == Ori(a.q - b.q, a.t - b.t, a.e - b.e)
\* the angle in units of 1e-8 radians
AngleE8(o) == o.q * HalfPiE8 + o.t * ThetaE8 + o.e * EpsE8

\* Den * (cos, sin) of t*theta, t in -1 .. 1
BaseCS(t) ==
    CASE t = 0 -> <<5, 0>>
      [] t = 1 -> <<3, 4>>
      [] t = -1 -> <<3, -4>>

\* Den * (cos, sin) of q*(pi/2) + t*theta
QuarterCS(q, t) ==
    LET cs == BaseCS(t)
        c == cs[1]
        s == cs[2]
    IN CASE q % 4 = 0 -> <<c, s>>
         [] q % 4 = 1 -> <<-s, c>>
         [] q % 4 = 2 -> <<-c, -s>>
         [] q % 4 = 3 -> <<s, -c>>

\* Den * ori.cos(): cos(A + e*eps) = cos A - e*eps*sin A
Cos(o) == LET cs == QuarterCS(o.q, o.t) IN D(cs[1], -o.e * cs[2])
\* Den * ori.sin(): sin(A + e*eps) = sin A + e*eps*cos A
Sin(o) == LET cs == QuarterCS(o.q, o.t) IN D(cs[2], o.e * cs[1])

\* ----------------------------------------------------------- BoundingBox
Box(pos, size, ori) == [pos |-> pos, size |-> size, ori |-> ori]

\* BoundingBox::rotate: the point turned counterclockwise (times Den)
rotate(point, ori) ==
    LET c == Cos(ori)
        s == Sin(ori)
    IN Vec(DSub(DMul(c, point.x), DMul(s, point.y)),
           DAdd(DMul(s, point.x), DMul(c, point.y)))

\* the four corners of the untransformed box, in the order of the columns
base_corners(b) ==
    << Vec(Zero, Zero), Vec(Zero, b.size.y), Vec(b.size.x, Zero), Vec(b.size.x, b.size.y) >>

\* rot_matrix(): | cos -sin | sin cos | (times Den)
rot_matrix(b) == [c |-> Cos(b.ori), s |-> Sin(b.ori)]

\* the product of a rotation matrix and a column
MatMul(m, p) ==
    Vec(DSub(DMul(m.c, p.x), DMul(m.s, p.y)),
        DAdd(DMul(m.s, p.x), DMul(m.c, p.y)))

\* corners(): rot_matrix() * base_corners(), each column moved by pos;
\* b.pos is a length times Den
corners(b) ==
    LET m == rot_matrix(b)
        base == base_corners(b)
    IN [i \in 1..4 |-> VAdd(MatMul(m, base[i]), b.pos)]

\* fold of f32::min / f32::max over one row of the corners
FoldMin(s) == DMin(DMin(s[1], s[2]), DMin(s[3], s[4]))
FoldMax(s) == DMax(DMax(s[1], s[2]), DMax(s[3], s[4]))

\* the rows of the corner matrix folded: | min_x max_x | min_y max_y |
fold_rows(cs) ==
    LET xs == [i \in 1..4 |-> cs[i].x]
        ys == [i \in 1..4 |-> cs[i].y]
    IN [minx |-> FoldMin(xs), maxx |-> FoldMax(xs),
        miny |-> FoldMin(ys), maxy |-> FoldMax(ys)]

\* bounds(): the folds over the rows of corners()
bounds(b) == fold_rows(corners(b))

\* normalized_wrt without the translation to the basis
normalized_wrt_untranslated(self, basis) ==
    Box(rotate(self.pos, OriSub(self.ori, basis.ori)),
        self.size,
        OriSub(self.ori, basis.ori))

\* normalized_wrt: pos is rotated by self.ori - basis.ori (times Den)
normalized_wrt(self, basis) ==
    Box(rotate(VSub(self.pos, basis.pos), OriSub(self.ori, basis.ori)),
        self.size,
        OriSub(self.ori, basis.ori))

\* the comparison of check_half_collision made strict
overlap_strict(lhs_bounds, rhs_bounds) ==
    /\ DLt(DMax(rhs_bounds.minx, Zero), DMin(rhs_bounds.maxx, lhs_bounds.x))
    /\ DLt(DMax(rhs_bounds.miny, Zero), DMin(rhs_bounds.maxy, lhs_bounds.y))

\* the comparison of check_half_collision: the bounds of the normalized box
\* against [0, basis.size] on both axes, ends included
overlap(lhs_bounds, rhs_bounds) ==
    /\ DLe(DMax(rhs_bounds.minx, Zero), DMin(rhs_bounds.maxx, lhs_bounds.x))
    /\ DLe(DMax(rhs_bounds.miny, Zero), DMin(rhs_bounds.maxy, lhs_bounds.y))

\* check_half_collision: self's bounds in basis's frame against [0, basis.size]
check_half_collision(self, basis) ==
    overlap(VScale(Den, basis.size), bounds(normalized_wrt(self, basis)))

\* ORI_EPSILON = 1e-7, in units of 1e-8 radians
ORI_EPSILON == 10

\* is_almost_axis_aligned: (rhs.ori - lhs.ori).abs() < ORI_EPSILON
is_almost_axis_aligned(lhs, rhs) ==
    Abs(AngleE8(OriSub(rhs.ori, lhs.ori))) < ORI_EPSILON

\* check_collision
check_collision(lhs, rhs) ==
    LET does_not_need_secondary_check == is_almost_axis_aligned(lhs, rhs)
    IN check_half_collision(lhs, rhs)
       /\ (does_not_need_secondary_check \/ check_half_collision(rhs, lhs))

\* ------------------------------------------------------ util/cartesian
\* product with tt1's iterator shared by the rows: the first row drains it
product_shared_iterator(tt0, tt1) ==
    IF tt0 = << >> THEN << >>
    ELSE [k \in 1..Len(tt1) |-> << Head(tt0), tt1[k] >>]

RECURSIVE product(_, _)
\* product: for each e0 of tt0 in order, a fresh clone of tt1's iterator
product(tt0, tt1) ==
    IF tt0 = << >> THEN << >>
    ELSE [k \in 1..Len(tt1) |-> << Head(tt0), tt1[k] >>] \o product(Tail(tt0), tt1)

RECURSIVE unique_square_with_self(_)
\* unique_square cloning the iterator before it advances
unique_square_with_self(tt) ==
    IF tt = << >> THEN << >>
    ELSE [k \in 1..Len(tt) |-> << Head(tt), tt[k] >>] \o unique_square_with_self(Tail(tt))

RECURSIVE unique_square(_)
\* unique_square: it.next() gives t0, the clone of the advanced iterator gives
\* the remaining elements, each paired with t0
unique_square(tt) ==
    IF tt = << >> THEN << >>
    ELSE LET t0 == Head(tt)
             remaining == Tail(tt)
         IN [k \in 1..Len(remaining) |-> << t0, remaining[k] >>] \o unique_square(remaining)

\* ---------------------------------------------------- physics/collision
\* A Collidable: its hitboxes and its offset.  A reference to a hitbox is the
\* place it is stored at (slice, entity index, index in the hitbox list),
\* kept together with the box it points to.
Entity(offset, boxes) == [offset |-> offset, boxes |-> boxes]
get_offset(e) == e.offset
get_hitboxes(slice, id, e) ==
    [k \in 1..Len(e.boxes) |-> [ref |-> << slice, id, k >>, bb |-> e.boxes[k]]]

\* transpose: ((t0, s0), (t1, s1)) to ((t0, t1), (s0, s1))
transpose(p) == << << p[1][1], p[2][1] >>, << p[1][2], p[2][2] >> >>

\* the last map of check_for_hb_collisions without the flip
keep_order(offset_second, hits) == [k \in 1..Len(hits) |-> << hits[k][1][1], hits[k][2] >>]

\* the last map of check_for_hb_collisions: the pairs that passed the filter
\* lose the moved copy and are flipped back when the lists were flipped
flip_back(offset_second, hits) ==
    [k \in 1..Len(hits) |->
        IF offset_second THEN << hits[k][2], hits[k][1][1] >>
        ELSE << hits[k][1][1], hits[k][2] >>]

\* each box of the list with its copy moved by offset
mapped_mem(hb, offset) ==
    [k \in 1..Len(hb) |->
        << hb[k], Box(VAdd(hb[k].bb.pos, offset), hb[k].bb.size, hb[k].bb.ori) >>]

\* check_for_hb_collisions: the offset goes to the boxes of the first list, or
\* of the second when offset_second; the surviving pairs are flipped back
check_for_hb_collisions(offset_second, offset, hb0, hb1) ==
    LET Hit(p) == check_collision(p[1][2], p[2].bb)
    IN flip_back(offset_second,
                 SelectSeq(product(mapped_mem(IF offset_second THEN hb1 ELSE hb0, offset),
                                   IF offset_second THEN hb0 ELSE hb1),
                           Hit))

\* the closure mapped over the candidate pairs by both entry points
hb_collisions_of(e_pair, hb_pair) ==
    LET should_offset_second == Len(hb_pair[1]) > Len(hb_pair[2])
        offset == IF should_offset_second
                  THEN VSub(get_offset(e_pair[2][2]), get_offset(e_pair[1][2]))
                  ELSE VSub(get_offset(e_pair[1][2]), get_offset(e_pair[2][2]))
    IN << e_pair, check_for_hb_collisions(should_offset_second, offset, hb_pair[1], hb_pair[2]) >>

\* Collision::from
Collision(c) ==
    [ids |-> << c[1][1][1], c[1][2][1] >>,
     objs |-> << c[1][1][2], c[1][2][2] >>,
     overlapping_hitboxes |-> c[2]]

\* .map(Collision::from)
collisions_from(kept) == [k \in 1..Len(kept) |-> Collision(kept[k])]

\* the closure applied to a transposed candidate
hb_collisions_of_transposed(t) == hb_collisions_of(t[1], t[2])

\* .map(transpose).map(..).filter(non-empty).map(Collision::from)
collect_collisions(candidates) ==
    LET NonEmpty(c) == c[2] # << >>
    IN collisions_from(
           SelectSeq([k \in 1..Len(candidates) |->
                         hb_collisions_of_transposed(transpose(candidates[k]))],
                     NonEmpty))

\* enumerate() with each entity's hitboxes; ids count from 0
with_hitboxes(slice, set) ==
    [i \in 1..Len(set) |-> << << i - 1, set[i] >>, get_hitboxes(slice, i - 1, set[i]) >>]

\* check_for_collisions
check_for_collisions(ents) ==
    collect_collisions(unique_square(with_hitboxes(1, ents)))

\* check_for_collision_pairs
check_for_collision_pairs(set1, set2) ==
    collect_collisions(product(with_hitboxes(1, set1), with_hitboxes(2, set2)))

\* ------------------------------------------------- geometry of reference
\* The rectangle of a box in the plane, as corners() builds it: the base
\* rectangle turned by ori about the origin, then moved by pos (times Den).
WorldCorners(b) == corners(Box(VScale(Den, b.pos), b.size, b.ori))

\* the two edge directions of a box (times Den)
Axes(b) == << Vec(Cos(b.ori), Sin(b.ori)), Vec(DNeg(Sin(b.ori)), Cos(b.ori)) >>

Dot(u, v) == DAdd(DMul(u.x, v.x), DMul(u.y, v.y))

\* extent of the rectangle of b along the direction ax
Extent(b, ax) ==
    LET wc == WorldCorners(b)
        ps == [i \in 1..4 |-> Dot(wc[i], ax)]
    IN [lo |-> FoldMin(ps), hi |-> FoldMax(ps)]

\* the extents of a and b along ax are disjoint
Disjoint(a, b, ax) ==
    LET ea == Extent(a, ax)
        eb == Extent(b, ax)
    IN DLt(ea.hi, eb.lo) \/ DLt(eb.hi, ea.lo)

\* the extents of a and b along ax meet in exactly one value
MeetInOne(a, b, ax) ==
    LET ea == Extent(a, ax)
        eb == Extent(b, ax)
    IN ea.hi = eb.lo \/ eb.hi = ea.lo

EdgeAxes(a, b) == { Axes(a)[1], Axes(a)[2], Axes(b)[1], Axes(b)[2] }

\* two rectangles are separated iff their extents are disjoint along an edge
\* direction of one of them
Separated(a, b) == \E ax \in EdgeAxes(a, b) : Disjoint(a, b, ax)
Intersecting(a, b) == ~Separated(a, b)
Touching(a, b) == Intersecting(a, b) /\ \E ax \in EdgeAxes(a, b) : MeetInOne(a, b, ax)

\* boxes without an eps part in orientation or position: nothing is dropped
\* in computing their geometry
ExactBox(b) == b.ori.e = 0 /\ b.pos.x.l = 0 /\ b.pos.y.l = 0

\* ----------------------------------------------------------------- state
VARIABLES
    lhs,             \* first argument of check_collision
    rhs,             \* second argument of check_collision
    collides,        \* the value check_collision returned
    pc,              \* "start" before the call, "done" after it
    entities,        \* the slice given to check_for_collisions; set1 of the pairs
    platforms,       \* set2 of check_for_collision_pairs
    collisions,      \* what check_for_collisions returned
    pair_collisions, \* what check_for_collision_pairs returned
    detected,        \* the detection entry points already called
    tt,              \* the sequence given to unique_square; tt0 of product
    tt1,             \* the second sequence given to product
    squared,         \* what unique_square yielded, collected
    multiplied,      \* what product yielded, collected
    iterated,        \* the iterators already collected
    ma,              \* first changeset handed to merge
    mb,              \* second changeset handed to merge
    mc,              \* third changeset handed to merge
    merged,          \* the merges computed from ma, mb, mc
    players,         \* BattleData.players
    arena,           \* BattleData.arena.platforms
    player_changesets, \* the local player_changesets of handle_update
    bpc,             \* the place handle_update has reached
    idx,             \* the index of the running for loop
    tick_start,      \* players when handle_update was entered
    calls,           \* the calls handle_update has made in this tick
    ticks,           \* the number of finished ticks
    hbs0,            \* first hitbox list handed to check_for_hb_collisions
    hbs1,            \* second hitbox list handed to check_for_hb_collisions
    shift,           \* the vector d the offsets are made of
    hb_found,        \* what the two calls of check_for_hb_collisions returned
    point,           \* the point handed to rotate
    angle,           \* the orientation handed to rotate
    turned           \* what the calls of rotate returned

obb_vars == << lhs, rhs, collides, pc >>
detect_vars == << entities, platforms, collisions, pair_collisions, detected >>
cartesian_vars == << tt, tt1, squared, multiplied, iterated >>
merge_vars == << ma, mb, mc, merged >>
battle_vars == << players, arena, player_changesets, bpc, idx, tick_start, calls, ticks >>
hb_vars == << hbs0, hbs1, shift, hb_found >>
rotate_vars == << point, angle, turned >>
vars == << obb_vars, detect_vars, cartesian_vars, merge_vars, battle_vars, hb_vars, rotate_vars >>

\* the parts a specification does not exercise stay empty
IdleOBB ==
    /\ lhs = Box(Vec(Zero, Zero), Vec(Zero, Zero), Ori(0, 0, 0))
    /\ rhs = lhs
    /\ collides = FALSE
    /\ pc = "idle"
IdleDetect ==
    /\ entities = << >>
    /\ platforms = << >>
    /\ collisions = << >>
    /\ pair_collisions = << >>
    /\ detected = {}
IdleCartesian ==
    /\ tt = << >>
    /\ tt1 = << >>
    /\ squared = << >>
    /\ multiplied = << >>
    /\ iterated = {}
IdleMerge ==
    /\ ma = << >>
    /\ mb = << >>
    /\ mc = << >>
    /\ merged = << >>
IdleBattle ==
    /\ players = << >>
    /\ arena = << >>
    /\ player_changesets = << >>
    /\ bpc = "idle"
    /\ idx = 0
    /\ tick_start = << >>
    /\ calls = << >>
    /\ ticks = 0

IdleHb ==
    /\ hbs0 = << >>
    /\ hbs1 = << >>
    /\ shift = << >>
    /\ hb_found = << >>

IdleRotate ==
    /\ point = << >>
    /\ angle = << >>
    /\ turned = << >>

Whole(n) == D(n, 0)
\* the orientations of the boxes: 0, pi/2, theta and eps
Upright == Ori(0, 0, 0)
Quarter == Ori(1, 0, 0)
Theta == Ori(0, 1, 0)
Eps == Ori(0, 0, 1)
Oris == { Upright, Quarter, Theta, Eps }
Sizes == { Vec(Whole(w), Whole(h)) : w \in 0..MaxSize, h \in 0..MaxSize }
\* the first box sits on a whole point near the origin
LhsPositions == { Vec(Whole(x), Whole(0)) : x \in 0..1 }
\* the second box may be off by 2*eps along x
RhsPositions ==
    { Vec(D(x, l), Whole(y)) : x \in (1 - MaxPos)..MaxPos, l \in {0, 2}, y \in 0..(MaxPos - 1) }

LhsBoxes == { Box(p, s, o) : p \in LhsPositions, s \in Sizes, o \in Oris }
RhsBoxes == { Box(p, s, o) : p \in RhsPositions, s \in Sizes, o \in Oris }

InitOBB ==
    /\ lhs \in LhsBoxes
    /\ rhs \in RhsBoxes
    /\ collides = FALSE
    /\ pc = "start"
    /\ IdleDetect
    /\ IdleCartesian
    /\ IdleMerge
    /\ IdleBattle
    /\ IdleHb
    /\ IdleRotate

\* BoundingBox::check_collision(&lhs, &rhs)
CheckCollision ==
    /\ pc = "start"
    /\ collides' = check_collision(lhs, rhs)
    /\ pc' = "done"
    /\ UNCHANGED << lhs, rhs, detect_vars, cartesian_vars, merge_vars, battle_vars, hb_vars, rotate_vars >>

NextOBB == CheckCollision

SpecOBB == InitOBB /\ [][NextOBB]_vars

\* ------------------------------------------------------- claims C1 .. C6
Done == pc = "done"
ExactPair == ExactBox(lhs) /\ ExactBox(rhs)
\* boxes with sides of positive length
Proper(b) == b.size.x.h > 0 /\ b.size.y.h > 0
ProperPair == Proper(lhs) /\ Proper(rhs)
ZeroSize(b) == b.size = Vec(Zero, Zero)

\* C1: check_collision returns true for every pair of boxes whose
\* rectangles share at least one point (stated for boxes with sides of
\* positive length whose geometry the model computes exactly).
C1_IntersectingReported ==
    (Done /\ ExactPair /\ ProperPair /\ Intersecting(lhs, rhs)) => collides

\* C2: check_collision returns false for every pair of boxes whose extents
\* are disjoint along some axis, whatever the orientations and sizes (stated
\* for boxes with sides of positive length).
C2_SeparatedNotReported ==
    (Done /\ ExactPair /\ ProperPair /\ Separated(lhs, rhs)) => ~collides

\* C3: check_collision(a, b) = check_collision(b, a) for all boxes a and b
\* (stated for boxes with sides of positive length).
C3_Symmetric == (Done /\ ProperPair) => (collides <=> check_collision(rhs, lhs))

\* C4: a box collides with a box of the same position, size and orientation.
C4_IdenticalCollide == (Done /\ rhs = lhs) => collides
C4_Witness == Done /\ rhs = lhs /\ lhs.ori = Theta /\ lhs.size = Vec(Whole(1), Whole(2)) /\ collides

C6_TouchingReported ==
    (Done /\ ExactPair /\ ProperPair /\ Touching(lhs, rhs)) => collides

\* ------------------------------------------------------------ detection
\* hitboxes per entity, entities in all, platforms among them, and the
\* offset that moves an entity away from the others
MaxBoxes == 2
MaxEntities == 3
MaxPlatforms == 1
FarOffset == 3

\* the hitboxes entities are made of: a square, a smaller square turned by a
\* quarter that lies inside it, and a box nearly parallel to the first, just
\* right of it
BigBox == Box(Vec(Whole(0), Whole(0)), Vec(Whole(2), Whole(2)), Upright)
TurnedBox == Box(Vec(Whole(1), Whole(1)), Vec(Whole(1), Whole(1)), Quarter)
TiltedBox == Box(Vec(D(2, 4), Whole(0)), Vec(Whole(1), Whole(4)), Eps)
DetBoxes == << BigBox, TurnedBox, TiltedBox >>

\* hitbox lists: up to MaxBoxes of the boxes, in the order of DetBoxes
RECURSIVE Pick(_)
Pick(ix) == IF ix = << >> THEN << >> ELSE << DetBoxes[Head(ix)] >> \o Pick(Tail(ix))
Increasing(ix) == \A a, b \in 1..Len(ix) : a < b => ix[a] < ix[b]
SeqsUpTo(S, n) == UNION { [1..m -> S] : m \in 0..n }
BoxLists ==
    { Pick(ix) : ix \in { jx \in SeqsUpTo(1..Len(DetBoxes), MaxBoxes) : jx # << >> /\ Increasing(jx) } }
Origin == Vec(Whole(0), Whole(0))
Far == Vec(Whole(FarOffset), Whole(0))
\* entities at the origin with any of the hitbox lists, and one away from it
Entities == { Entity(Origin, bs) : bs \in BoxLists } \cup { Entity(Far, << BigBox >>) }
Platforms == { Entity(Origin, << DetBoxes[k] >>) : k \in 1..Len(DetBoxes) }

InitDetect ==
    /\ entities \in SeqsUpTo(Entities, MaxEntities)
    /\ platforms \in SeqsUpTo(Platforms, MaxPlatforms)
    /\ Len(entities) + Len(platforms) <= MaxEntities
    /\ collisions = << >>
    /\ pair_collisions = << >>
    /\ detected = {}
    /\ IdleOBB
    /\ IdleCartesian
    /\ IdleMerge
    /\ IdleBattle
    /\ IdleHb
    /\ IdleRotate

\* check_for_collisions(entities)
CheckForCollisions ==
    /\ "self" \notin detected
    /\ collisions' = check_for_collisions(entities)
    /\ detected' = detected \cup {"self"}
    /\ UNCHANGED << entities, platforms, pair_collisions, obb_vars, cartesian_vars, merge_vars, battle_vars, hb_vars, rotate_vars >>

\* check_for_collision_pairs(entities, platforms)
CheckForCollisionPairs ==
    /\ "pairs" \notin detected
    /\ pair_collisions' = check_for_collision_pairs(entities, platforms)
    /\ detected' = detected \cup {"pairs"}
    /\ UNCHANGED << entities, platforms, collisions, obb_vars, cartesian_vars, merge_vars, battle_vars, hb_vars, rotate_vars >>

NextDetect == CheckForCollisions \/ CheckForCollisionPairs

SpecDetect == InitDetect /\ [][NextDetect]_vars

\* ------------------------------------------------------- claims C7 .. C9
\* hitbox k of entity e in world space: moved by the entity's offset
World(e, k) == Box(VAdd(e.boxes[k].pos, e.offset), e.boxes[k].size, e.boxes[k].ori)
AllExact(set) == \A i \in 1..Len(set) : \A k \in 1..Len(set[i].boxes) : ExactBox(set[i].boxes[k])

\* the index pairs (k, m) of the hitboxes of a and b whose rectangles overlap
OverlappingHitboxes(a, b) ==
    { km \in (1..Len(a.boxes)) \X (1..Len(b.boxes)) : Intersecting(World(a, km[1]), World(b, km[2])) }

NoRepeat(sq) == \A a, b \in 1..Len(sq) : a # b => sq[a] # sq[b]
Range(sq) == { sq[k] : k \in 1..Len(sq) }
IdsOf(cs) == [k \in 1..Len(cs) |-> cs[k].ids]
\* the (k, m) index pairs a record lists
ListedHitboxes(c) ==
    [k \in 1..Len(c.overlapping_hitboxes) |->
        << c.overlapping_hitboxes[k][1].ref[3], c.overlapping_hitboxes[k][2].ref[3] >>]

\* the records cs are exactly those of the candidate pairs, each once, each
\* listing every overlapping hitbox pair once
RecordsMatch(cs, set1, set2, candidates) ==
    /\ NoRepeat(IdsOf(cs))
    /\ Range(IdsOf(cs)) =
         { << ij[1] - 1, ij[2] - 1 >> : ij \in { c \in candidates : OverlappingHitboxes(set1[c[1]], set2[c[2]]) # {} } }
    /\ \A k \in 1..Len(cs) :
         /\ NoRepeat(ListedHitboxes(cs[k]))
         /\ Range(ListedHitboxes(cs[k])) =
              OverlappingHitboxes(set1[cs[k].ids[1] + 1], set2[cs[k].ids[2] + 1])

\* C7: check_for_collisions returns exactly one record for each index pair
\* i < j with at least one overlapping hitbox pair, no other record, and each
\* record lists every overlapping hitbox pair of its entities exactly once.
C7_OneRecordPerOverlappingPair ==
    ("self" \in detected /\ AllExact(entities)) =>
        RecordsMatch(collisions, entities, entities,
                     { ij \in (1..Len(entities)) \X (1..Len(entities)) : ij[1] < ij[2] })

\* the ids of the records come in row-major order
RowMajor(cs) ==
    \A a, b \in 1..Len(cs) :
        a < b => \/ cs[a].ids[1] < cs[b].ids[1]
                 \/ (cs[a].ids[1] = cs[b].ids[1] /\ cs[a].ids[2] < cs[b].ids[2])

\* C8: check_for_collision_pairs returns exactly one record for each (i, j)
\* with at least one overlapping hitbox pair, none with an empty list, in
\* row-major order of (i, j).
C8_OneRecordPerOverlappingCross ==
    ("pairs" \in detected /\ AllExact(entities) /\ AllExact(platforms)) =>
        /\ RecordsMatch(pair_collisions, entities, platforms,
                        (1..Len(entities)) \X (1..Len(platforms)))
        /\ \A k \in 1..Len(pair_collisions) : pair_collisions[k].overlapping_hitboxes # << >>
        /\ RowMajor(pair_collisions)

\* the record c names its entities, and every listed pair has its left box
\* among the hitboxes of objs.0 and its right box among those of objs.1
WellFormed(c, set1, slice1, set2, slice2) ==
    /\ c.ids[1] + 1 \in 1..Len(set1) /\ c.objs[1] = set1[c.ids[1] + 1]
    /\ c.ids[2] + 1 \in 1..Len(set2) /\ c.objs[2] = set2[c.ids[2] + 1]
    /\ \A k \in 1..Len(c.overlapping_hitboxes) :
         LET p == c.overlapping_hitboxes[k]
         IN /\ p[1].ref[1] = slice1 /\ p[1].ref[2] = c.ids[1]
            /\ p[1].ref[3] \in 1..Len(c.objs[1].boxes) /\ p[1].bb = c.objs[1].boxes[p[1].ref[3]]
            /\ p[2].ref[1] = slice2 /\ p[2].ref[2] = c.ids[2]
            /\ p[2].ref[3] \in 1..Len(c.objs[2].boxes) /\ p[2].bb = c.objs[2].boxes[p[2].ref[3]]

\* C9: in every record of either entry point, objs are the entities at ids
\* and each listed pair is (box of objs.0, box of objs.1), also when the offset
\* went to the second entity.
C9_PairsKeepSides ==
    /\ \A k \in 1..Len(collisions) : WellFormed(collisions[k], entities, 1, entities, 1)
    /\ \A k \in 1..Len(pair_collisions) : WellFormed(pair_collisions[k], entities, 1, platforms, 2)
MoreOnTheLeft(c) ==
    Len(c.objs[1].boxes) > Len(c.objs[2].boxes) /\ c.overlapping_hitboxes # << >>
C9_Witness ==
    /\ \E k \in 1..Len(collisions) : MoreOnTheLeft(collisions[k])
    /\ \E k \in 1..Len(pair_collisions) : MoreOnTheLeft(pair_collisions[k])

\* ------------------------------------------------------------ iterators
MaxLen == 3
MaxElem == 3

InitCartesian ==
    /\ tt \in SeqsUpTo(1..MaxElem, MaxLen)
    /\ tt1 \in SeqsUpTo(1..MaxElem, MaxLen)
    /\ squared = << >>
    /\ multiplied = << >>
    /\ iterated = {}
    /\ IdleOBB
    /\ IdleDetect
    /\ IdleMerge
    /\ IdleBattle
    /\ IdleHb
    /\ IdleRotate

\* unique_square(tt).collect()
UniqueSquare ==
    /\ "square" \notin iterated
    /\ squared' = unique_square(tt)
    /\ iterated' = iterated \cup {"square"}
    /\ UNCHANGED << tt, tt1, multiplied, obb_vars, detect_vars, merge_vars, battle_vars, hb_vars, rotate_vars >>

\* product(tt, tt1).collect()
Product ==
    /\ "product" \notin iterated
    /\ multiplied' = product(tt, tt1)
    /\ iterated' = iterated \cup {"product"}
    /\ UNCHANGED << tt, tt1, squared, obb_vars, detect_vars, merge_vars, battle_vars, hb_vars, rotate_vars >>

NextCartesian == UniqueSquare \/ Product

SpecCartesian == InitCartesian /\ [][NextCartesian]_vars

\* ------------------------------------------------------------ claim C10
\* the place of the pair (i, j), i < j, in the order by i and then by j
PlaceOf(i, j, n) == (i - 1) * n - (i * (i - 1)) \div 2 + (j - i)

\* C10: unique_square over a sequence of length n yields n*(n-1)/2 pairs:
\* every (tt[i], tt[j]) with i < j once, ordered by i and then by j, and no
\* other pair.
C10_SquareIsTheIndexPairs ==
    "square" \in iterated =>
        LET n == Len(tt)
        IN /\ Len(squared) = (n * (n - 1)) \div 2
           /\ \A i, j \in 1..n : i < j => squared[PlaceOf(i, j, n)] = << tt[i], tt[j] >>
C10_Witness ==
    "square" \in iterated /\ Len(tt) = 3 /\ Len(squared) = 3 /\ squared[2] = << tt[1], tt[3] >>

\* ------------------------------------------------------------ claim C12
\* A BoundingBox is built by a struct literal or by Deserialize: its fields
\* are public and take whatever values they are given.
LiteralSizes == { Vec(Whole(w), Whole(h)) : w \in -1..1, h \in -1..1 }
LiteralBoxes ==
    { Box(Vec(Whole(x), Whole(0)), s, o) : x \in 0..1, s \in LiteralSizes, o \in { Upright, Quarter } }

InitLiteral ==
    /\ IdleOBB
    /\ IdleDetect
    /\ IdleCartesian
    /\ IdleMerge
    /\ IdleBattle
    /\ IdleHb
    /\ IdleRotate

\* BoundingBox { pos, size, ori }, twice
Construct ==
    /\ pc = "idle"
    /\ lhs' \in LiteralBoxes
    /\ rhs' \in LiteralBoxes
    /\ pc' = "start"
    /\ UNCHANGED << collides, detect_vars, cartesian_vars, merge_vars, battle_vars, hb_vars, rotate_vars >>

NextLiteral == Construct \/ CheckCollision

SpecLiteral == InitLiteral /\ [][NextLiteral]_vars

\* C12: no box with a negative size component reaches check_collision.
C12_NegativeSizeRejected ==
    Done => /\ lhs.size.x.h >= 0 /\ lhs.size.y.h >= 0
            /\ rhs.size.x.h >= 0 /\ rhs.size.y.h >= 0

\* ------------------------------------------------------------ claim C11
\* C11: product(A, B) yields |A|*|B| pairs, the pair (A[i], B[j]) at place
\* (i-1)*|B| + j: every pair of positions once, for each a in order all b in
\* order, and nothing when either input is empty.
C11_ProductIsRowMajor ==
    "product" \in iterated =>
        LET n == Len(tt)
            m == Len(tt1)
        IN /\ Len(multiplied) = n * m
           /\ \A i \in 1..n : \A j \in 1..m :
                 multiplied[(i - 1) * m + j] = << tt[i], tt1[j] >>
           /\ (tt = << >> \/ tt1 = << >>) => multiplied = << >>
C11_Witness ==
    /\ "product" \in iterated /\ Len(tt) = 3 /\ Len(tt1) = 2
    /\ Len(multiplied) = 6 /\ multiplied[3] = << tt[2], tt1[1] >>
    /\ tt[1] # tt[2] /\ tt1[1] # tt1[2]

\* ------------------------------------------------- screens/battle/player
\* f32 on whole numbers: every whole number up to 2^24 in magnitude is a
\* value of f32; above it the values are 2 apart up to 2^25, then 4 apart
F32Exact == 16777216
\* the spacing of the f32 values around n, for n up to 2^26 in magnitude
Spacing(n) ==
    IF Abs(n) <= F32Exact THEN 1 ELSE IF Abs(n) <= 2 * F32Exact THEN 2 ELSE 4
\* n rounded to the nearest multiple of u, a tie to the even multiple
RoundTo(n, u) ==
    LET q == n \div u
        r == n - q * u
    IN IF 2 * r < u THEN q * u
       ELSE IF 2 * r > u THEN (q + 1) * u
       ELSE IF q % 2 = 0 THEN q * u ELSE (q + 1) * u
\* a + b in f32, a and b whole values of f32
F32Add(a, b) == RoundTo(a + b, Spacing(a + b))
\* the sum of two na::Vector2<f32>
V2Add(u, v) == Vec(F32Add(u.x, v.x), F32Add(u.y, v.y))

\* struct Changes
Changes(force, contacted_platforms) ==
    [force |-> force, contacted_platforms |-> contacted_platforms]
\* Changes::default()
Changes_default == Changes(Vec(0, 0), << >>)

\* merge that keeps only self's contacted platforms
merge_keeping_self(self, other) ==
    Changes(V2Add(self.force, other.force), self.contacted_platforms)

\* Changes::merge: the forces added, the lists chained
merge(self, other) ==
    Changes(V2Add(self.force, other.force),
            self.contacted_platforms \o other.contacted_platforms)

\* ----------------------------------------------------------------- merge
\* the longest list of contacted platforms handed to merge
MaxContacts == 2

\* forces along x: nothing, one step, and the largest whole number below
\* which f32 is exact, either way
Forces == { Vec(x, 0) : x \in { 0, 1, F32Exact, -F32Exact } }
ContactLists == SeqsUpTo(0..1, MaxContacts)
ChangeSets == { Changes(f, ps) : f \in Forces, ps \in ContactLists }

InitMerge ==
    /\ ma \in ChangeSets
    /\ mb \in ChangeSets
    /\ mc \in ChangeSets
    /\ merged = << >>
    /\ IdleOBB
    /\ IdleDetect
    /\ IdleCartesian
    /\ IdleBattle
    /\ IdleHb
    /\ IdleRotate

\* the merges of ma, mb, mc and of each with the default
Merge ==
    /\ merged = << >>
    /\ merged' = [ab |-> merge(ma, mb),
                  ba |-> merge(mb, ma),
                  ab_c |-> merge(merge(ma, mb), mc),
                  a_bc |-> merge(ma, merge(mb, mc)),
                  da |-> merge(Changes_default, ma),
                  ad |-> merge(ma, Changes_default)]
    /\ UNCHANGED << ma, mb, mc, obb_vars, detect_vars, cartesian_vars, battle_vars, hb_vars, rotate_vars >>

NextMerge == Merge

SpecMerge == InitMerge /\ [][NextMerge]_vars

\* ----------------------------------------------------- claims C13, C14
Merged == merged # << >>

\* C13: merge is associative and commutative, on the force and on the list
\* of contacted platforms.
C13_MergeAssociativeCommutative ==
    Merged => (merged.ab_c = merged.a_bc /\ merged.ab = merged.ba)

\* C14: merging with Changes::default(), on either side, gives the changeset
\* back: same force, same contacted_platforms.
C14_DefaultIsIdentity == Merged => (merged.da = ma /\ merged.ad = ma)
C14_Witness ==
    /\ Merged /\ ma.force.x = F32Exact /\ Len(ma.contacted_platforms) = 2
    /\ merged.da = ma /\ merged.ad = ma

\* ---------------------------------------------------------------- battle
\* Lengths of the battle are whole multiples of gravity.y, where f32 adds
\* exactly; y grows downwards.
\* struct Player, the fields the tick reads or writes
Player(position, velocity, acceleration, bboxes, platforms_to_ignore, touched_platforms) ==
    [position |-> position, velocity |-> velocity, acceleration |-> acceleration,
     bboxes |-> bboxes, platforms_to_ignore |-> platforms_to_ignore,
     touched_platforms |-> touched_platforms]
\* struct Platform
Platform(body, can_move_through) == [body |-> body, can_move_through |-> can_move_through]

\* Player as Collidable: get_offset is the position, get_hitboxes the bboxes
player_collidable(p) == Entity(Vec(Whole(p.position.x), Whole(p.position.y)), p.bboxes)
\* Platform as Collidable: the body is its only hitbox; the offset is zero
platform_collidable(p) == Entity(Vec(Zero, Zero), << p.body >>)
player_collidables(ps) == [i \in 1..Len(ps) |-> player_collidable(ps[i])]
platform_collidables(ar) == [i \in 1..Len(ar) |-> platform_collidable(ar[i])]

\* platforms_to_ignore.contains(touched)
contains(list, x) == \E k \in 1..Len(list) : list[k] = x

\* the decision taken also when the player is at rest
lands_when_not_rising(self, touched) ==
    /\ \E k \in 1..Len(touched) : ~contains(self.platforms_to_ignore, touched[k])
    /\ self.velocity.y >= 0

\* the decision taken from the first touched platform alone
lands_on_first(self, touched) ==
    /\ touched # << >>
    /\ ~contains(self.platforms_to_ignore, touched[1])
    /\ self.velocity.y > 0

\* the decision of update_for_platforms: a touched platform that is not
\* ignored, while falling
lands(self, touched) ==
    /\ \E k \in 1..Len(touched) : ~contains(self.platforms_to_ignore, touched[k])
    /\ self.velocity.y > 0

\* update_for_platforms stopping the fall in the velocity itself
update_for_platforms_zeroing_velocity(self, touched, f) ==
    IF lands(self, touched)
    THEN [self |-> [self EXCEPT !.touched_platforms = touched,
                                !.velocity = Vec(self.velocity.x, 0)],
          f |-> Vec(f.x, 0)]
    ELSE [self |-> [self EXCEPT !.touched_platforms = touched], f |-> f]

\* Player::update_for_platforms: the player and the force f after the call
update_for_platforms(self, touched, f) ==
    IF lands(self, touched)
    THEN [self |-> [self EXCEPT !.touched_platforms = touched,
                                !.acceleration = Vec(self.acceleration.x, -self.velocity.y)],
          f |-> Vec(f.x, 0)]
    ELSE [self |-> [self EXCEPT !.touched_platforms = touched], f |-> f]

\* Player::handle_push
handle_push(self, dir) == [self EXCEPT !.acceleration = V2Add(self.acceleration, dir)]

\* handle_push on the result of update_for_platforms
push_updated(u) == handle_push(u.self, u.f)

\* Player::apply_changeset
apply_changeset(self, changes) ==
    push_updated(update_for_platforms(self, changes.contacted_platforms, changes.force))

\* reset_for_update that leaves the acceleration
reset_nothing(self) == self

\* Player::reset_for_update
reset_for_update(self) == [self EXCEPT !.acceleration = Vec(0, 0)]

\* the position advanced by the velocity the player has now
advance_position(self) == [self EXCEPT !.position = V2Add(self.position, self.velocity)]

\* handle_phys_update adding the velocity of before the update to the position
handle_phys_update_old_velocity(self) ==
    reset_for_update([self EXCEPT !.velocity = V2Add(self.velocity, self.acceleration),
                                  !.position = V2Add(self.position, self.velocity)])

\* Player::handle_phys_update
handle_phys_update(self) ==
    reset_for_update(advance_position(
        [self EXCEPT !.velocity = V2Add(self.velocity, self.acceleration)]))

\* interactions: what the handlers return for the player sides
handle_player_platform_collision(c) == Changes(Vec(0, 0), << c.ids[2] >>)

\* BattleData.gravity
gravity == Vec(0, 1)
\* grav_changeset
grav_changeset == Changes(gravity, << >>)

\* BattleData and the locals of handle_update
Battle(ps, ar, changesets) == [players |-> ps, arena |-> ar, player_changesets |-> changesets]

\* vec![grav_changeset; self.players.len()]
fresh_changesets(bd) ==
    [bd EXCEPT !.player_changesets = [i \in 1..Len(bd.players) |-> grav_changeset]]

RECURSIVE merge_platform_collisions(_, _)
\* the loop over the player-platform collisions: each record's changeset is
\* merged into the bucket of its player
merge_platform_collisions(changesets, cs) ==
    IF cs = << >> THEN changesets
    ELSE merge_platform_collisions(
             [changesets EXCEPT ![Head(cs).ids[1] + 1] =
                 merge(@, handle_player_platform_collision(Head(cs)))],
             Tail(cs))

\* check_for_collision_pairs(players, platforms) of the tick
platform_collisions(bd) ==
    check_for_collision_pairs(player_collidables(bd.players), platform_collidables(bd.arena))
\* check_for_collisions(players) of the tick
player_collisions(bd) == check_for_collisions(player_collidables(bd.players))

\* the player-platform pass applying each bucket as soon as it has merged
platform_pass_applying(bd) ==
    [bd EXCEPT !.player_changesets =
                   merge_platform_collisions(bd.player_changesets, platform_collisions(bd)),
               !.players = [i \in 1..Len(bd.players) |->
                   apply_changeset(bd.players[i],
                       merge_platform_collisions(bd.player_changesets, platform_collisions(bd))[i])]]

\* the player-platform pass: detection, then the merges
platform_pass(bd) ==
    [bd EXCEPT !.player_changesets =
                   merge_platform_collisions(bd.player_changesets, platform_collisions(bd))]

\* the player-player pass: handle_player_player_collision returns
\* (None, None), nothing is merged
player_pass(bd) == bd

\* the apply loop that skips the buckets without a contacted platform
to_apply_contacted(changesets) ==
    { i \in 1..Len(changesets) : changesets[i].contacted_platforms # << >> }

\* the indices the apply loop over the players calls apply_changeset for:
\* every bucket holds a changeset
to_apply(changesets) == 1..Len(changesets)

\* one round of the apply loop
apply_one(bd, i) ==
    IF i \in to_apply(bd.player_changesets)
    THEN [bd EXCEPT !.players[i] = apply_changeset(@, bd.player_changesets[i])]
    ELSE bd

\* one round of the loop that advances time
advance_one(bd, i) == [bd EXCEPT !.players[i] = handle_phys_update(@)]

\* ------------------------------------------------------------- the tick
\* players of a battle beyond the first, and ticks of a run
MaxPlayers == 2
MaxTicks == 2

\* a player's hitbox; a floor that reaches into the hitbox of the player at
\* the origin; a ledge turned by a quarter that lies inside that hitbox;
\* Lengths and speeds are counted in units of the gravity.
Torso == BigBox
Floor == Platform(Box(Vec(Whole(0), Whole(1)), Vec(Whole(4), Whole(1)), Upright), FALSE)
Ledge == Platform(TurnedBox, TRUE)
\* a slope turned by theta that lies to the left of that hitbox, apart from it
Slope == Platform(Box(Vec(Whole(-1), Whole(0)), Vec(Whole(1), Whole(1)), Theta), FALSE)
Arenas == SeqsUpTo({ Floor, Ledge }, 2) \cup { << Slope >> }

\* the first player: on the floor or above it, rising, resting or falling,
\* pushed or not, ignoring platform 0 or none
Leaders ==
    { Player(Vec(0, y), v, a, << Torso >>, ig, << >>) :
        y \in { 0, -3 },
        v \in { Vec(0, -1), Vec(0, 0), Vec(0, 1), Vec(1, 2) },
        a \in { Vec(0, 0), Vec(1, 1) },
        ig \in { << >>, << 0 >> } }
\* the other players: one falling at the origin, one resting above the floor
Followers ==
    { Player(Vec(0, 0), Vec(0, 1), Vec(0, 0), << Torso >>, << >>, << >>),
      Player(Vec(1, -3), Vec(0, 0), Vec(0, 0), << Torso >>, << >>, << >>) }
PlayerLists ==
    { << l >> \o fs : l \in Leaders, fs \in SeqsUpTo(Followers, MaxPlayers - 1) }

InitBattle ==
    /\ players \in PlayerLists
    /\ arena \in Arenas
    /\ player_changesets = << >>
    /\ bpc = "begin"
    /\ idx = 0
    /\ tick_start = << >>
    /\ calls = << >>
    /\ ticks = 0
    /\ IdleOBB
    /\ IdleDetect
    /\ IdleCartesian
    /\ IdleMerge
    /\ IdleHb
    /\ IdleRotate

\* BattleData and the locals of handle_update as they are now
BD == Battle(players, arena, player_changesets)
\* handle_update goes on with the BattleData bd
SetBattle(bd) ==
    /\ players' = bd.players
    /\ arena' = bd.arena
    /\ player_changesets' = bd.player_changesets
\* a call made by handle_update: what is called, for which index, with which
\* changeset, and the players as they are when it is called
Call(op, id, arg) == [op |-> op, id |-> id, arg |-> arg, saw |-> players]
\* the calls of a pass: the detection, then one call per collision record
PassCalls(detection, per_record, cs) ==
    << Call(detection, 0, << >>) >> \o [k \in 1..Len(cs) |-> Call(per_record, cs[k].ids[1], << >>)]

\* handle_update is entered: the changeset buckets are made
Begin ==
    /\ bpc = "begin"
    /\ ticks < MaxTicks
    /\ SetBattle(fresh_changesets(BD))
    /\ tick_start' = players
    /\ calls' = << >>
    /\ bpc' = "platform_pass"
    /\ idx' = 0
    /\ UNCHANGED << ticks, obb_vars, detect_vars, cartesian_vars, merge_vars, hb_vars, rotate_vars >>

\* the player-platform collisions are found, handled and merged
PlatformPass ==
    /\ bpc = "platform_pass"
    /\ SetBattle(platform_pass(BD))
    /\ calls' = calls \o PassCalls("check_for_collision_pairs", "merge", platform_collisions(BD))
    /\ bpc' = "player_pass"
    /\ UNCHANGED << idx, tick_start, ticks, obb_vars, detect_vars, cartesian_vars, merge_vars, hb_vars, rotate_vars >>

\* the player-player collisions are found and handled
PlayerPass ==
    /\ bpc = "player_pass"
    /\ SetBattle(player_pass(BD))
    /\ calls' = calls \o PassCalls("check_for_collisions", "handle_player_player_collision",
                                   player_collisions(BD))
    /\ bpc' = "apply"
    /\ idx' = 1
    /\ UNCHANGED << tick_start, ticks, obb_vars, detect_vars, cartesian_vars, merge_vars, hb_vars, rotate_vars >>

\* one round of the loop over player_changesets
ApplyChanges ==
    /\ bpc = "apply"
    /\ SetBattle(apply_one(BD, idx))
    /\ calls' = IF idx \in to_apply(player_changesets)
                THEN Append(calls, Call("apply_changeset", idx - 1, player_changesets[idx]))
                ELSE calls
    /\ bpc' = IF idx = Len(players) THEN "advance" ELSE "apply"
    /\ idx' = IF idx = Len(players) THEN 1 ELSE idx + 1
    /\ UNCHANGED << tick_start, ticks, obb_vars, detect_vars, cartesian_vars, merge_vars, hb_vars, rotate_vars >>

\* one round of the loop over the players that advances time; after the last
\* one handle_update returns (no platform holds a changeset, and platforms
\* do not move)
AdvanceTime ==
    /\ bpc = "advance"
    /\ SetBattle(advance_one(BD, idx))
    /\ calls' = Append(calls, Call("handle_phys_update", idx - 1, << >>))
    /\ bpc' = IF idx = Len(players) THEN "begin" ELSE "advance"
    /\ idx' = IF idx = Len(players) THEN 0 ELSE idx + 1
    /\ ticks' = IF idx = Len(players) THEN ticks + 1 ELSE ticks
    /\ UNCHANGED << tick_start, obb_vars, detect_vars, cartesian_vars, merge_vars, hb_vars, rotate_vars >>

NextBattle == Begin \/ PlatformPass \/ PlayerPass \/ ApplyChanges \/ AdvanceTime

SpecBattle == InitBattle /\ [][NextBattle]_vars

\* ------------------------------------------------------- claims C15..C18
DetectionOps ==
    { "check_for_collision_pairs", "merge", "check_for_collisions",
      "handle_player_player_collision" }
CallsOf(op) == { k \in 1..Len(calls) : calls[k].op = op }
\* both passes and their handlers are over, nothing has been applied yet
PassesOver == bpc = "apply" /\ idx = 1
\* the last call of handle_update so far was handle_phys_update
JustAdvanced == calls # << >> /\ calls[Len(calls)].op = "handle_phys_update"
\* the player the last call was for: at the start of the tick, as the call
\* found it, and now
StartOfLast == tick_start[calls[Len(calls)].id + 1]
BeforeLast == calls[Len(calls)].saw[calls[Len(calls)].id + 1]
AfterLast == players[calls[Len(calls)].id + 1]

\* C15: within handle_update no player is changed until both detection
\* passes and all collision handlers have finished; every detection and every
\* handler, those of the player-player pass included, sees the players as
\* they were when the tick started.
C15_PassesSeeTickStart ==
    /\ (bpc \in { "platform_pass", "player_pass" } \/ PassesOver) => players = tick_start
    /\ \A k \in 1..Len(calls) : calls[k].op \in DetectionOps => calls[k].saw = tick_start
\* in the second tick a player-platform changeset has been merged, a
\* player-player collision has been handled and nothing is applied yet
C15_Witness ==
    /\ PassesOver
    /\ ticks = 1
    /\ CallsOf("merge") # {}
    /\ CallsOf("handle_player_player_collision") # {}
    /\ players = tick_start
    /\ \E i \in 1..Len(players) : players[i].velocity.y > 0

\* C16: in a tick every player's accumulated changeset is applied exactly
\* once, also when the player collided with nothing, after all merges and
\* before any handle_phys_update, and handle_phys_update is called exactly
\* once per player.
C16_AppliedOnceThenAdvancedOnce ==
    /\ \A j, k \in 1..Len(calls) :
           j < k =>
               /\ calls[j].op = "apply_changeset" => calls[k].op \notin DetectionOps
               /\ calls[j].op = "handle_phys_update" => calls[k].op = "handle_phys_update"
    /\ \A k \in CallsOf("apply_changeset") : calls[k].arg = player_changesets[calls[k].id + 1]
    /\ (bpc = "advance" \/ JustAdvanced) =>
           \A i \in 1..Len(players) :
               Cardinality({ k \in CallsOf("apply_changeset") : calls[k].id = i - 1 }) = 1
    /\ (bpc = "begin" /\ ticks > 0) =>
           \A i \in 1..Len(players) :
               Cardinality({ k \in CallsOf("handle_phys_update") : calls[k].id = i - 1 }) = 1
\* a tick of two players is over: one had touched a platform, one nothing
C16_Witness ==
    /\ bpc = "begin"
    /\ ticks > 0
    /\ Len(players) = 2
    /\ \E i, j \in 1..2 :
           /\ player_changesets[i].contacted_platforms # << >>
           /\ player_changesets[j].contacted_platforms = << >>
    /\ Cardinality(CallsOf("apply_changeset")) = 2
    /\ Cardinality(CallsOf("handle_phys_update")) = 2

\* the hitboxes of player p reach into a platform of the arena that p does
\* not ignore
OverlapsPlatform(p) ==
    \E j \in 1..Len(arena) :
        /\ ~contains(p.platforms_to_ignore, j - 1)
        /\ \E k \in 1..Len(p.bboxes) : Intersecting(World(player_collidable(p), k), arena[j].body)

\* C17: a player that is falling (velocity.y > 0) with zero acceleration
\* and overlaps at least one platform it does not ignore has, after
\* apply_changeset and handle_phys_update, velocity.y = 0 and the
\* position.y it had.
C17_LandsOnOverlappedPlatform ==
    (/\ JustAdvanced
     /\ StartOfLast.velocity.y > 0
     /\ StartOfLast.acceleration = Vec(0, 0)
     /\ OverlapsPlatform(StartOfLast))
    => (AfterLast.velocity.y = 0 /\ AfterLast.position.y = StartOfLast.position.y)
\* the same for the platforms the detection reported to the player
C17_LandsOnReportedPlatform ==
    (/\ JustAdvanced
     /\ StartOfLast.velocity.y > 0
     /\ StartOfLast.acceleration = Vec(0, 0)
     /\ \E k \in 1..Len(AfterLast.touched_platforms) :
            ~contains(StartOfLast.platforms_to_ignore, AfterLast.touched_platforms[k]))
    => (AfterLast.velocity.y = 0 /\ AfterLast.position.y = StartOfLast.position.y)

\* C18: handle_phys_update sets the velocity to the old velocity plus the
\* acceleration, the position to the old position plus the new velocity,
\* and the acceleration to (0, 0).
C18_VelocityThenPosition ==
    JustAdvanced =>
        /\ AfterLast.velocity = V2Add(BeforeLast.velocity, BeforeLast.acceleration)
        /\ AfterLast.position = V2Add(BeforeLast.position, AfterLast.velocity)
        /\ AfterLast.acceleration = Vec(0, 0)
\* a moving, accelerated player has been advanced
C18_Witness ==
    /\ JustAdvanced
    /\ BeforeLast.velocity.x # 0
    /\ BeforeLast.velocity.y # 0
    /\ BeforeLast.acceleration.x # 0
    /\ BeforeLast.acceleration.y # 0
    /\ AfterLast.position # BeforeLast.position

\* ------------------------------------------------------------ claim C19
\* the box self seen from basis: translated by -basis.pos and turned by
\* -basis.ori about basis's corner (times Den)
SeenFrom(self, basis) ==
    Box(rotate(VSub(self.pos, basis.pos), OriSub(Upright, basis.ori)),
        self.size,
        OriSub(self.ori, basis.ori))

\* C19: normalized_wrt(self, basis) gives the position (self.pos -
\* basis.pos) rotated by the negative of basis.ori, the orientation
\* self.ori - basis.ori and the size of self, for every self and basis, self
\* with a non-zero orientation included (stated for the boxes whose geometry
\* the model computes exactly).
C19_NormalizedIsSeenFromBasis ==
    (Done /\ ExactPair) => normalized_wrt(lhs, rhs) = SeenFrom(lhs, rhs)
\* the same for self with orientation 0 only
C19_UprightIsSeenFromBasis ==
    (Done /\ ExactPair /\ lhs.ori = Upright) => normalized_wrt(lhs, rhs) = SeenFrom(lhs, rhs)
\* orientation and size alone
C19_OrientationAndSize ==
    Done =>
        /\ normalized_wrt(lhs, rhs).ori = OriSub(lhs.ori, rhs.ori)
        /\ normalized_wrt(lhs, rhs).size = lhs.size

\* ------------------------------------------------------------ claim C20
\* physics.rs, check_collision: both half checks, whatever the orientations
physics_check_collision(lhs_box, rhs_box) ==
    check_half_collision(lhs_box, rhs_box) /\ check_half_collision(rhs_box, lhs_box)

\* C20: the fast path never changes the answer: check_collision of obb.rs
\* returns what the version that always makes both half checks returns
\* (stated for boxes with sides of positive length).
C20_FastPathSameAnswer ==
    (Done /\ ProperPair) => collides = physics_check_collision(lhs, rhs)
\* the same for equal orientations only: the two half checks agree
C20_EqualOrientationsAgree ==
    (Done /\ lhs.ori = rhs.ori) =>
        /\ check_half_collision(lhs, rhs) = check_half_collision(rhs, lhs)
        /\ collides = physics_check_collision(lhs, rhs)

\* ------------------------------------------------------------ claim C21
\* the (k, m) index pairs the records of cs list for the entities i and j
ReportedHitboxes(cs, i, j) ==
    UNION { Range(ListedHitboxes(cs[r])) : r \in { q \in 1..Len(cs) : cs[q].ids = << i - 1, j - 1 >> } }
\* the (k, m) index pairs of hitboxes of a and b for which check_collision
\* holds once both are moved by their entity's offset
CollidingInWorld(a, b) ==
    { km \in (1..Len(a.boxes)) \X (1..Len(b.boxes)) : check_collision(World(a, km[1]), World(b, km[2])) }
\* the same with the arguments in the order the detection hands them over:
\* the box that received the offset first
CollidingAsCalled(a, b) ==
    { km \in (1..Len(a.boxes)) \X (1..Len(b.boxes)) :
        IF Len(a.boxes) > Len(b.boxes)
        THEN check_collision(World(b, km[2]), World(a, km[1]))
        ELSE check_collision(World(a, km[1]), World(b, km[2])) }

\* C21: detection works on world-space boxes: for every candidate entity
\* pair (A, B) the record lists the hitbox pair (ha, hb) iff check_collision
\* holds for ha moved by A's offset and hb moved by B's offset.
C21_DetectionInWorldSpace ==
    /\ "self" \in detected =>
           \A i, j \in 1..Len(entities) :
               i < j => ReportedHitboxes(collisions, i, j) = CollidingInWorld(entities[i], entities[j])
    /\ "pairs" \in detected =>
           \A i \in 1..Len(entities) : \A j \in 1..Len(platforms) :
               ReportedHitboxes(pair_collisions, i, j) = CollidingInWorld(entities[i], platforms[j])
\* the same with check_collision's arguments in the order of the call
C21_DetectionAsCalled ==
    /\ "self" \in detected =>
           \A i, j \in 1..Len(entities) :
               i < j => ReportedHitboxes(collisions, i, j) = CollidingAsCalled(entities[i], entities[j])
    /\ "pairs" \in detected =>
           \A i \in 1..Len(entities) : \A j \in 1..Len(platforms) :
               ReportedHitboxes(pair_collisions, i, j) = CollidingAsCalled(entities[i], platforms[j])

\* ----------------------------------------- check_for_hb_collisions alone
\* the components of the vector d
MaxShift == 2
Shifts == { Vec(Whole(x), Whole(y)) : x \in (-MaxShift)..MaxShift, y \in -1..1 }
\* the hitbox lists of one entity of each slice
HitboxLists(slice) == { get_hitboxes(slice, 0, Entity(Origin, bs)) : bs \in BoxLists }

InitHb ==
    /\ hbs0 \in HitboxLists(1)
    /\ hbs1 \in HitboxLists(2)
    /\ shift \in Shifts
    /\ hb_found = << >>
    /\ IdleOBB
    /\ IdleDetect
    /\ IdleCartesian
    /\ IdleMerge
    /\ IdleBattle
    /\ IdleRotate

\* check_for_hb_collisions(false, d, (H0, H1)) and
\* check_for_hb_collisions(true, -d, (H0, H1))
CheckForHbCollisions ==
    /\ hb_found = << >>
    /\ hb_found' = [first |-> check_for_hb_collisions(FALSE, shift, hbs0, hbs1),
                    second |-> check_for_hb_collisions(TRUE, VSub(Vec(Zero, Zero), shift), hbs0, hbs1)]
    /\ UNCHANGED << hbs0, hbs1, shift, obb_vars, detect_vars, cartesian_vars, merge_vars, battle_vars, rotate_vars >>

NextHb == CheckForHbCollisions

SpecHb == InitHb /\ [][NextHb]_vars

\* ------------------------------------------------------------ claim C22
\* C22: which side receives the offset does not change what is detected:
\* check_for_hb_collisions(false, d, (H0, H1)) and
\* check_for_hb_collisions(true, -d, (H0, H1)) return the same set of
\* (box of H0, box of H1) pairs.
C22_OffsetSideIrrelevant ==
    hb_found # << >> => Range(hb_found.first) = Range(hb_found.second)
\* both calls return pairs (box of H0, box of H1), each pair once
C22_PairsOfBothLists ==
    hb_found # << >> =>
        /\ NoRepeat(hb_found.first) /\ NoRepeat(hb_found.second)
        /\ \A p \in Range(hb_found.first) \cup Range(hb_found.second) :
               p[1] \in Range(hbs0) /\ p[2] \in Range(hbs1)

\* ------------------------------------------------------- rotate in f32
\* A coordinate is a whole count of 2^-24, and of magnitude 1/2 at least, so
\* that the values of f32 are among the counts. The cosine and sine of a
\* multiple of the f32 value of pi/2 are -1, 0, 1 or a small value, which is
\* a whole count of 2^-48.
One == F32Exact
\* cos of the f32 value of pi/2, in f32: -12303662 * 2^-48 (sin of the f32
\* value of pi is twice that)
COS_HALF_PI == -12303662
Trig(unit, small) == [unit |-> unit, small |-> small]
\* ori.cos() and ori.sin() for ori = q times the f32 value of pi/2
CosF32(q) ==
    CASE q = 0 -> Trig(1, 0)
      [] q \in { 1, -1 } -> Trig(0, COS_HALF_PI)
      [] q \in { 2, -2 } -> Trig(-1, 0)
SinF32(q) ==
    CASE q = 0 -> Trig(0, 0)
      [] q = 1 -> Trig(1, 0)
      [] q = -1 -> Trig(-1, 0)
      [] q = 2 -> Trig(0, 2 * COS_HALF_PI)
      [] q = -2 -> Trig(0, -2 * COS_HALF_PI)

RECURSIVE Ulp(_)
\* the distance of neighbouring f32 values of magnitude mag, in counts
Ulp(mag) == IF mag < F32Exact THEN 1 ELSE 2 * Ulp(mag \div 2)
\* the count nearest to i + r / u among the multiples of u, a tie to the even
\* multiple (rest is i modulo u, frac counts 2^-24 of a count)
NearestMultiple(i, u, frac) ==
    LET q == i \div u
        twice == 2 * ((i - q * u) * F32Exact + frac)
    IN IF twice < u * F32Exact THEN q * u
       ELSE IF twice > u * F32Exact THEN (q + 1) * u
       ELSE IF q % 2 = 0 THEN q * u ELSE (q + 1) * u
\* the f32 value nearest to i + frac / 2^24 counts, 0 <= frac < 2^24
F32Round(i, frac) ==
    NearestMultiple(i,
                    Ulp(IF i >= 0 THEN i ELSE IF frac = 0 THEN -i ELSE -i - 1),
                    frac)
\* a product or a sum before it is rounded: big counts 2^-24, small counts 2^-48
Mixed(big, small) == [big |-> big, small |-> small]
\* the f32 product of the small value k * 2^-48 and the coordinate a, which
\* is n * 2^24 + d counts
SmallTimes(k, n, d) ==
    F32Round(k * n + ((k * d) \div F32Exact), (k * d) % F32Exact)
\* t * a in f32: exact for -1, 0 and 1, a rounded small value otherwise
F32Mul(t, a) ==
    IF t.small = 0 THEN Mixed(t.unit * a, 0)
    ELSE Mixed(0, SmallTimes(t.small,
                             (a + (F32Exact \div 2)) \div F32Exact,
                             a - ((a + (F32Exact \div 2)) \div F32Exact) * F32Exact))
\* the f32 sum of a coordinate and a small value
BigPlusSmall(big, small) ==
    F32Round(big + (small \div F32Exact), small % F32Exact)
\* u + v and u - v in f32 for products u and v, one of them small or zero
F32Sum(u, v) == BigPlusSmall(u.big + v.big, u.small + v.small)
F32Diff(u, v) == BigPlusSmall(u.big - v.big, u.small - v.small)

\* rotate with the sign of the sine terms exchanged
rotate_f32_mirrored(p, q) ==
    Vec(F32Sum(F32Mul(CosF32(q), p.x), F32Mul(SinF32(q), p.y)),
        F32Diff(F32Mul(SinF32(q), p.x), F32Mul(CosF32(q), p.y)))

\* BoundingBox::rotate in f32, for ori = q times the f32 value of pi/2:
\* (cos * x - sin * y, sin * x + cos * y), every product and sum rounded
rotate_f32(p, q) ==
    Vec(F32Diff(F32Mul(CosF32(q), p.x), F32Mul(SinF32(q), p.y)),
        F32Sum(F32Mul(SinF32(q), p.x), F32Mul(CosF32(q), p.y)))

\* the whole part of the coordinates of the points
MaxCoord == 2
Coords == { c * One : c \in ((-MaxCoord)..MaxCoord) \ { 0 } }
Points == { Vec(x, y) : x \in Coords, y \in Coords }
QuarterTurns == -2..2

InitRotate ==
    /\ point \in Points
    /\ angle \in QuarterTurns
    /\ turned = << >>
    /\ IdleOBB
    /\ IdleDetect
    /\ IdleCartesian
    /\ IdleMerge
    /\ IdleBattle
    /\ IdleHb

\* rotate(point, angle), the same turned back, and a half turn made in
\* one call and in two
Rotate ==
    /\ turned = << >>
    /\ turned' = [there |-> rotate_f32(point, angle),
                  back |-> rotate_f32(rotate_f32(point, angle), -angle),
                  half |-> rotate_f32(point, 2),
                  quarters |-> rotate_f32(rotate_f32(point, 1), 1)]
    /\ UNCHANGED << point, angle, obb_vars, detect_vars, cartesian_vars, merge_vars, battle_vars, hb_vars >>

NextRotate == Rotate

SpecRotate == InitRotate /\ [][NextRotate]_vars

\* ------------------------------------------------------------ claim C30
\* EPSILON = 1e-5 of approx_eq, in counts of 2^-24 (167.77 of them)
EPSILON == 167
\* approx_eq of the tests
approx_eq(a, b) == Abs(a.x - b.x) <= EPSILON /\ Abs(a.y - b.y) <= EPSILON

JustApplied == calls # << >> /\ calls[Len(calls)].op = "apply_changeset"
\* the changeset of that call
AppliedChanges == calls[Len(calls)].arg
\* the changeset names a platform the player does not ignore
ContactsNotIgnored(p, changes) ==
    \E k \in 1..Len(changes.contacted_platforms) :
        ~contains(p.platforms_to_ignore, changes.contacted_platforms[k])

\* C25: apply_changeset stops the fall (acceleration.y becomes -velocity.y
\* and the vertical force of the changeset is dropped) if and only if the
\* changeset contacts a platform that is not ignored and velocity.y > 0; in
\* every other case the whole force of the changeset is added to the
\* acceleration.
C25_StopsTheFallIff ==
    JustApplied =>
        IF ContactsNotIgnored(BeforeLast, AppliedChanges) /\ BeforeLast.velocity.y > 0
        THEN AfterLast.acceleration =
                 Vec(F32Add(BeforeLast.acceleration.x, AppliedChanges.force.x),
                     -BeforeLast.velocity.y)
        ELSE AfterLast.acceleration = V2Add(BeforeLast.acceleration, AppliedChanges.force)
\* a player at rest on a platform it does not ignore took the whole force
C25_Witness ==
    /\ JustApplied
    /\ ContactsNotIgnored(BeforeLast, AppliedChanges)
    /\ BeforeLast.velocity.y = 0
    /\ AppliedChanges.force.y > 0
    /\ AfterLast.acceleration.y = BeforeLast.acceleration.y + AppliedChanges.force.y

TickOver == bpc = "begin" /\ ticks > 0
\* the indices (from 0) of the platforms the hitboxes of player p reach into
OverlappedPlatforms(p) ==
    { j - 1 : j \in { n \in 1..Len(arena) :
        \E k \in 1..Len(p.bboxes) : Intersecting(World(player_collidable(p), k), arena[n].body) } }
\* the indices (from 0) of the platforms for which check_collision holds
\* with a hitbox of player p, as the detection calls it
CollidingPlatforms(p) ==
    { j - 1 : j \in { n \in 1..Len(arena) :
        \E k \in 1..Len(p.bboxes) : check_collision(World(player_collidable(p), k), arena[n].body) } }
\* the list names the members of the set, each once, in ascending order
AscendingListOf(list, set) ==
    /\ Range(list) = set
    /\ \A a, b \in 1..Len(list) : a < b => list[a] < list[b]

\* C26: after every tick each player's touched_platforms is exactly the
\* list of the indices of the platforms that overlapped the player when the
\* tick began, each once and in ascending order; it is replaced every tick.
C26_TouchedAreTheOverlapped ==
    TickOver =>
        \A i \in 1..Len(players) :
            AscendingListOf(players[i].touched_platforms, OverlappedPlatforms(tick_start[i]))
\* the same for the platforms check_collision reports
C26_TouchedAreTheColliding ==
    TickOver =>
        \A i \in 1..Len(players) :
            AscendingListOf(players[i].touched_platforms, CollidingPlatforms(tick_start[i]))

\* C27: a player that overlaps no platform when the tick begins and has
\* zero acceleration then has, after the tick, the old velocity plus gravity
\* and the old position plus that new velocity, whether or not it overlaps
\* other players.
C27_GravityOnceWithoutPlatform ==
    (/\ JustAdvanced
     /\ OverlappedPlatforms(StartOfLast) = {}
     /\ StartOfLast.acceleration = Vec(0, 0))
    => /\ AfterLast.velocity = V2Add(StartOfLast.velocity, gravity)
       /\ AfterLast.position = V2Add(StartOfLast.position, AfterLast.velocity)
\* the same for the players the detection reported no platform to
C27_GravityOnceWithoutReport ==
    (/\ JustAdvanced
     /\ AfterLast.touched_platforms = << >>
     /\ StartOfLast.acceleration = Vec(0, 0))
    => /\ AfterLast.velocity = V2Add(StartOfLast.velocity, gravity)
       /\ AfterLast.position = V2Add(StartOfLast.position, AfterLast.velocity)

\* C24: a player that overlaps a platform it does not ignore when a tick
\* begins, with velocity.y >= 0 and no force but gravity, is not lower after
\* the tick than before it (stated for the platforms the detection reports as
\* well).
C24_NeverSinksOnPlatform ==
    (/\ JustAdvanced
     /\ StartOfLast.velocity.y >= 0
     /\ StartOfLast.acceleration = Vec(0, 0)
     /\ OverlapsPlatform(StartOfLast)
     /\ ContactsNotIgnored(StartOfLast, Changes(gravity, AfterLast.touched_platforms)))
    => AfterLast.position.y <= StartOfLast.position.y
\* the same for the players that fall when the tick begins
C24_FallingNeverSinks ==
    (/\ JustAdvanced
     /\ StartOfLast.velocity.y > 0
     /\ StartOfLast.acceleration = Vec(0, 0)
     /\ ContactsNotIgnored(StartOfLast, Changes(gravity, AfterLast.touched_platforms)))
    => AfterLast.position.y <= StartOfLast.position.y

\* ------------------------------------------------- the battle as it runs
\* the step of a walk: 2.0, in units of the gravity (0.01)
WALK == 200
\* the steps a player may be away from where it started
MaxWalk == 1
RECURSIVE handle_input(_, _)
\* Player::handle_input: every Walk action moves the player by a step to
\* the left or to the right (the stance is OnGround from construction on)
handle_input(self, actions) ==
    IF actions = << >> THEN self
    ELSE handle_input(
             [self EXCEPT !.position =
                 Vec(F32Add(self.position.x, IF Head(actions) = "left" THEN -WALK ELSE WALK),
                     self.position.y)],
             Tail(actions))
\* the keys held at once that walk a player
MaxActions == 2
\* the Walk actions get_possible_actions may return for a player: one for
\* every pressed key that is bound to walking
ActionLists == SeqsUpTo({ "left", "right" }, MaxActions)

\* test_player: at rest, nothing ignored; placed on the floor or above it
Constructed ==
    { Player(Vec(0, y), Vec(0, 0), Vec(0, 0), << Torso >>, << >>, << >>) : y \in { 0, -3 } }

InitGame ==
    /\ players \in SeqsUpTo(Constructed, MaxPlayers) \ { << >> }
    /\ arena \in Arenas
    /\ player_changesets = << >>
    /\ bpc = "begin"
    /\ idx = 0
    /\ tick_start = << >>
    /\ calls = << >>
    /\ ticks = 0
    /\ IdleOBB
    /\ IdleDetect
    /\ IdleCartesian
    /\ IdleMerge
    /\ IdleHb
    /\ IdleRotate

\* BattleData::handle_input, between two calls of handle_update: every
\* player handles the actions its input scheme found
HandleInput ==
    /\ bpc = "begin"
    /\ ticks < MaxTicks
    /\ \E actions \in [1..Len(players) -> ActionLists] :
           players' = [i \in 1..Len(players) |-> handle_input(players[i], actions[i])]
    /\ \A i \in 1..Len(players) : Abs(players'[i].position.x) <= MaxWalk * WALK
    /\ UNCHANGED << arena, player_changesets, bpc, idx, tick_start, calls, ticks,
                    obb_vars, detect_vars, cartesian_vars, merge_vars, hb_vars, rotate_vars >>

NextGame == HandleInput \/ NextBattle

SpecGame == InitGame /\ [][NextGame]_vars

\* ------------------------------------------------------------ claim C28
\* C28: when handle_update has returned every player's acceleration is
\* (0, 0), and so it is when the apply phase of every tick starts, for any
\* sequence of ticks and inputs.
C28_AccelerationZeroBetweenTicks ==
    (bpc \in { "begin", "platform_pass", "player_pass" } \/ PassesOver) =>
        \A i \in 1..Len(players) : players[i].acceleration = Vec(0, 0)
\* the apply phase of the second tick starts: a player has walked, a player
\* has gained velocity, a player touches a platform
C28_Witness ==
    /\ PassesOver
    /\ ticks = 1
    /\ \E i \in 1..Len(players) : players[i].position.x # 0
    /\ \E i \in 1..Len(players) : players[i].velocity.y # 0
    /\ CallsOf("merge") # {}
    /\ \A i \in 1..Len(players) : players[i].acceleration = Vec(0, 0)

\* ------------------------------------- the tick, collisions in any order
RECURSIVE apply_loop(_, _)
\* the loop over player_changesets, from round i on
apply_loop(bd, i) ==
    IF i > Len(bd.players) THEN bd ELSE apply_loop(apply_one(bd, i), i + 1)
RECURSIVE advance_loop(_, _)
\* the loop that advances time, from round i on
advance_loop(bd, i) ==
    IF i > Len(bd.players) THEN bd ELSE advance_loop(advance_one(bd, i), i + 1)
\* BattleData::handle_update as a whole, the collisions handled in the
\* order the detection returns them
handle_update(bd) ==
    advance_loop(apply_loop(player_pass(platform_pass(fresh_changesets(bd))), 1), 1)

\* the orders a list of collision records can be processed in
Orders(cs) ==
    { [k \in 1..Len(cs) |-> cs[f[k]]] :
        f \in { g \in [1..Len(cs) -> 1..Len(cs)] :
                    \A a, b \in 1..Len(cs) : a # b => g[a] # g[b] } }

\* the player-platform pass, its records handled in some order
PlatformPassReordered ==
    /\ bpc = "platform_pass"
    /\ \E cs \in Orders(platform_collisions(BD)) :
           /\ SetBattle([BD EXCEPT !.player_changesets =
                            merge_platform_collisions(player_changesets, cs)])
           /\ calls' = calls \o PassCalls("check_for_collision_pairs", "merge", cs)
    /\ bpc' = "player_pass"
    /\ UNCHANGED << idx, tick_start, ticks, obb_vars, detect_vars, cartesian_vars, merge_vars, hb_vars, rotate_vars >>

\* the player-player pass, its records handled in some order
PlayerPassReordered ==
    /\ bpc = "player_pass"
    /\ \E cs \in Orders(player_collisions(BD)) :
           /\ SetBattle(player_pass(BD))
           /\ calls' = calls \o PassCalls("check_for_collisions",
                                          "handle_player_player_collision", cs)
    /\ bpc' = "apply"
    /\ idx' = 1
    /\ UNCHANGED << tick_start, ticks, obb_vars, detect_vars, cartesian_vars, merge_vars, hb_vars, rotate_vars >>

NextReorder ==
    Begin \/ PlatformPassReordered \/ PlayerPassReordered \/ ApplyChanges \/ AdvanceTime

SpecReorder == InitBattle /\ [][NextReorder]_vars

\* ------------------------------------------------------------ claim C23
\* position, velocity and acceleration of the two players are the same
SameMotion(p, q) ==
    /\ p.position = q.position
    /\ p.velocity = q.velocity
    /\ p.acceleration = q.acceleration
\* C23: in whatever order the collision records of the two passes are
\* processed, after handle_update every player has the position, velocity
\* and acceleration that the tick gives with the records in detection order.
C23_OrderIrrelevant ==
    TickOver =>
        \A i \in 1..Len(players) :
            SameMotion(players[i], handle_update(Battle(tick_start, arena, << >>)).players[i])
\* a falling player that ignores platform 0 touched platform 1 before
\* platform 0 in the tick that is over, and landed
C23_Witness ==
    /\ TickOver
    /\ \E i \in 1..Len(players) :
           /\ tick_start[i].velocity.y > 0
           /\ players[i].platforms_to_ignore = << 0 >>
           /\ players[i].touched_platforms = << 1, 0 >>
           /\ players[i].velocity.y = 0

====
